---- MODULE Spec2Model ----
(***************************************************************************)
(* Profile registry, settings commands and dispatcher of the summarization *)
(* subsystem (src-tauri/src/managers/profile.rs, managers/summarization.rs *)
(* and commands/summarization.rs).                                         *)
(*                                                                         *)
(* Text is a sequence of tokens.  Every character that a pattern of the    *)
(* code can match is a token of its own: all of an endpoint, of a raw text *)
(* and of a response, and every '{' and what follows it in a template.  A  *)
(* run of prose in a prompt, in which no match of "{transcription}" can    *)
(* begin, may be written as one token.  Identifiers, names and             *)
(* descriptions are only compared or tested for emptiness and are strings. *)
(* An Option<T> is a sequence of length 0 (None) or 1 (Some).              *)
(***************************************************************************)
EXTENDS Integers, Sequences, FiniteSets, TLC

\* ------------------------------------------------------------------ bounds

\* Calls begun in one behaviour, all threads together.
MaxCalls == 2

\* Two calls at most are in progress at a time.  The threads are
\* interchangeable, and a call takes the first idle one.
Threads == {1, 2}

\* ------------------------------------------------------------------- text

Placeholder == <<"{", "t", "r", "a", "n", "s", "c", "r", "i", "p", "t", "i", "o", "n", "}">>

V1Segment == <<"/", "v", "1", "/">>

V1Suffix == <<"/", "v", "1">>

Slash == <<"/">>

Whitespace == {" ", "\n", "\t", "\r"}

\* str::contains
Contains(s, pat) ==
    \E i \in 0..(Len(s) - Len(pat)) : SubSeq(s, i + 1, i + Len(pat)) = pat

\* str::replace: the matches are found left to right and do not overlap; the
\* replacement text is not searched again.
RECURSIVE Replace(_, _, _)
Replace(s, pat, by) ==
    IF Len(s) < Len(pat) THEN s
    ELSE IF SubSeq(s, 1, Len(pat)) = pat
         THEN by \o Replace(SubSeq(s, Len(pat) + 1, Len(s)), pat, by)
         ELSE <<Head(s)>> \o Replace(Tail(s), pat, by)

\* str::trim_end_matches: removes the suffix as often as it matches.
RECURSIVE TrimEndMatches(_, _)
TrimEndMatches(s, pat) ==
    IF Len(s) >= Len(pat) /\ SubSeq(s, Len(s) - Len(pat) + 1, Len(s)) = pat
    THEN TrimEndMatches(SubSeq(s, 1, Len(s) - Len(pat)), pat)
    ELSE s

RECURSIVE TrimStart(_)
TrimStart(s) ==
    IF s # <<>> /\ Head(s) \in Whitespace THEN TrimStart(Tail(s)) ELSE s

RECURSIVE TrimEnd(_)
TrimEnd(s) ==
    IF s # <<>> /\ s[Len(s)] \in Whitespace
    THEN TrimEnd(SubSeq(s, 1, Len(s) - 1))
    ELSE s

\* str::trim
Trim(s) == TrimEnd(TrimStart(s))

\* ---------------------------------------------------------------- profile

Profile(id, name, description, system_prompt, user_prompt_template, is_built_in, stamp) ==
    [id |-> id, name |-> name, description |-> description,
     system_prompt |-> system_prompt,
     user_prompt_template |-> user_prompt_template,
     is_built_in |-> is_built_in, created_at |-> stamp, updated_at |-> stamp]

\* Profile::new_custom, the clock reading being the argument now.
new_custom(id, name, description, system_prompt, user_prompt_template, now) ==
    Profile(id, name, description, system_prompt, user_prompt_template, FALSE, <<now>>)

\* str::replacen(.., 1): the first match only.
RECURSIVE ReplaceFirst(_, _, _)
ReplaceFirst(s, pat, by) ==
    IF Len(s) < Len(pat) THEN s
    ELSE IF SubSeq(s, 1, Len(pat)) = pat
         THEN by \o SubSeq(s, Len(pat) + 1, Len(s))
         ELSE <<Head(s)>> \o ReplaceFirst(Tail(s), pat, by)

\* A plausible slip: the first occurrence only is replaced.
format_prompt_first_only(profile, raw_text) ==
    ReplaceFirst(profile.user_prompt_template, Placeholder, raw_text)

\* Profile::format_prompt
format_prompt(profile, raw_text) ==
    Replace(profile.user_prompt_template, Placeholder, raw_text)

get_built_in_profiles ==
    << Profile("professional", "Professional",
               "Formal tone suitable for workplace communication",
               <<"You are a professional writing assistant. Convert casual speech into polished, professional text suitable for workplace communication. Fix grammar, remove filler words, and use formal tone while maintaining the original meaning.">>,
               <<"Convert this speech transcription into professional text:", "\n", "\n">>
                   \o Placeholder, TRUE, <<>>),
       Profile("llm_agent", "LLM Agent Instructions",
               "Clear, structured instructions for AI agents",
               <<"You are a technical instruction optimizer. Convert natural speech into clear, structured instructions for AI agents. Use imperative voice, be specific and unambiguous, and remove conversational elements.">>,
               <<"Convert this speech into a clear instruction for an AI agent:", "\n", "\n">>
                   \o Placeholder, TRUE, <<>>),
       Profile("email", "Email",
               "Well-formatted email with proper structure",
               <<"You are an email writing assistant. Convert speech into a well-formatted email. Add appropriate greeting and closing if missing, use proper paragraphs, and maintain professional yet friendly tone.">>,
               <<"Convert this speech into a well-formatted email:", "\n", "\n">>
                   \o Placeholder, TRUE, <<>>),
       Profile("notes", "Notes",
               "Concise bullet points and key phrases",
               <<"You are a note-taking assistant. Convert speech into concise, well-organized notes using bullet points. Extract key information and organize logically.">>,
               <<"Convert this speech into organized notes:", "\n", "\n">>
                   \o Placeholder, TRUE, <<>>),
       Profile("code_comments", "Code Comments",
               "Technical documentation style",
               <<"You are a technical documentation assistant. Convert speech into clear, concise code comments or documentation. Use technical language appropriately and be precise.">>,
               <<"Convert this speech into a code comment or technical documentation:", "\n", "\n">>
                   \o Placeholder, TRUE, <<>>),
       Profile("raw", "Raw (No Processing)",
               "Bypass summarization, paste raw transcription",
               <<>>, <<>>, TRUE, <<>>) >>

\* --------------------------------------------------------------- registry

\* HashMap::insert
InsertProfile(m, p) ==
    [k \in (DOMAIN m) \cup {p.id} |-> IF k = p.id THEN p ELSE m[k]]

RECURSIVE InsertAll(_, _)
InsertAll(m, ps) ==
    IF ps = <<>> THEN m ELSE InsertAll(InsertProfile(m, Head(ps)), Tail(ps))

\* HashMap::new
EmptyMap == [k \in {} |-> k]

\* A plausible slip: the built-in profiles are not seeded.
load_profiles_customs_only(custom_profiles) ==
    InsertAll(EmptyMap, custom_profiles)

\* load_profiles_from_app, "Load built-in profiles": the map after the first
\* loop.
BuiltInMap == InsertAll(EmptyMap, get_built_in_profiles)

\* SummarizationManager::load_profiles_from_app, given the custom_profiles of
\* the settings it reads.
load_profiles(custom_profiles) == InsertAll(BuiltInMap, custom_profiles)

\* HashMap::values
ProfileValues(m) == {m[k] : k \in DOMAIN m}

\* A plausible slip: a missing profile falls back to "raw".
LookupOrRaw(m, profile_id) ==
    IF profile_id \in DOMAIN m THEN <<m[profile_id]>>
    ELSE IF "raw" \in DOMAIN m THEN <<m["raw"]>> ELSE <<>>

\* HashMap::get(..).cloned()
LookupProfile(m, profile_id) ==
    IF profile_id \in DOMAIN m THEN <<m[profile_id]>> ELSE <<>>

\* --------------------------------------------------------------- settings

ApiTypes == {"Ollama", "OpenAI"}

\* What the callers of the model hand to change_llm_api_type_setting.
ApiTypeInputs == {"OpenAI"}

Host == <<"h", "t", "t", "p", ":", "/", "/", "h", "o", "s", "t">>

\* "http://host:11434"
EndpointOllama == Host \o <<":", "1", "1", "4", "3", "4">>

\* "http://host/v1/"
EndpointV1Slash == Host \o <<"/", "v", "1", "/">>

\* "http://host/v1"
EndpointV1 == Host \o <<"/", "v", "1">>

\* "http://host/"
EndpointSlash == Host \o <<"/">>

\* What the callers of the model hand to the settings commands.
Endpoints == {EndpointV1Slash, EndpointSlash}

Models == {"mistral"}

Timeouts == {30}

Enabled == {TRUE}

\* Profiles a caller may hand to save_custom_profile.
CustomOne ==
    new_custom("custom_1", "My Custom Profile", "Custom description",
               <<"You are helpful">>, <<"Do this: ">> \o Placeholder, "t1")

CustomOneEdited ==
    new_custom("custom_1", "My Custom Profile", "Edited", <<>>, Placeholder, "t2")

CustomFlagged ==
    Profile("custom_2", "Flagged", "Stored with the built-in flag set",
            <<"You are a tester">>, <<"Process: ">> \o Placeholder, TRUE, <<>>)

CustomRaw ==
    new_custom("raw", "My raw", "Saved under the id raw",
               <<"You are helpful">>, <<"Do this: ">> \o Placeholder, "t1")

NoId == new_custom("", "Nameless id", "", <<>>, Placeholder, "t1")

NoName == new_custom("custom_1", "", "", <<>>, Placeholder, "t1")

NoPlaceholder ==
    new_custom("custom_1", "No placeholder", "", <<>>,
               <<"{", "t", "r", "a", "n", "s", "c", "r", "i", "p", "t", "}">>, "t1")

ProfileInputs ==
    {CustomOneEdited, CustomFlagged, CustomRaw, NoId, NoName, NoPlaceholder}

DeleteIds == {"custom_1", "custom_2", "professional"}

ProcessIds == {"custom_1", "raw"}

ActiveIds == {"professional"}

RawTexts == {<<>>, <<" ", "h", "i", "\n">>}

\* The settings store as the program may find it at start-up: the defaults,
\* or what earlier sessions saved.
DefaultSettings ==
    [enable_summarization |-> FALSE, active_profile_id |-> "raw",
     llm_endpoint |-> EndpointOllama, llm_model |-> "llama3",
     llm_api_type |-> "Ollama", llm_timeout_seconds |-> 10,
     custom_profiles |-> <<>>]

InitialSettings ==
    {DefaultSettings,
     [DefaultSettings EXCEPT !.custom_profiles = <<CustomOne>>,
                             !.active_profile_id = "custom_1",
                             !.llm_api_type = "OpenAI"],
     [DefaultSettings EXCEPT !.custom_profiles = <<CustomOne, CustomFlagged>>,
                             !.llm_endpoint = EndpointV1]}

\* ------------------------------------------------------------------ state

VARIABLES
    settings,   \* the settings store (get_settings / write_settings)
    profiles,   \* SummarizationManager.profiles: the map inside the Mutex
    guard,      \* the thread holding the Mutex, or Free
    pc,         \* each thread's position
    call,       \* each thread's current call and its arguments
    loc,        \* each thread's local variables
    result,     \* what each thread's call returns, at its return
    http,       \* each thread's request in flight, if any
    ncalls,     \* calls begun so far
    stored      \* every custom_profiles list the store has held

Free == 0

vars == <<settings, profiles, guard, pc, call, loc, result, http, ncalls, stored>>

NoCall == [op |-> "none", profile |-> <<>>, profile_id |-> "", raw_text |-> <<>>]

Call(op) == [NoCall EXCEPT !.op = op]

NoLocals ==
    [settings |-> <<>>, new_profiles |-> <<>>, profile |-> <<>>,
     endpoint |-> <<>>, model |-> <<>>, hint |-> <<>>, api_type |-> <<>>,
     user_prompt |-> <<>>, sent |-> 0, response |-> <<>>]

NoResult ==
    [status |-> "none", err |-> "", code |-> 0, text |-> <<>>, list |-> {},
     flag |-> FALSE]

Ok == [NoResult EXCEPT !.status = "ok"]

OkText(text) == [Ok EXCEPT !.text = text]

OkList(list) == [Ok EXCEPT !.list = list]

Err(message) == [NoResult EXCEPT !.status = "err", !.err = message]

\* The value of a function that returns bool.
Bool(flag) == [NoResult EXCEPT !.status = "bool", !.flag = flag]

Init ==
    /\ settings \in InitialSettings
    /\ profiles = load_profiles(settings.custom_profiles)
    /\ guard = Free
    /\ pc = [t \in Threads |-> "idle"]
    /\ call = [t \in Threads |-> NoCall]
    /\ loc = [t \in Threads |-> NoLocals]
    /\ result = [t \in Threads |-> NoResult]
    /\ http = [t \in Threads |-> <<>>]
    /\ ncalls = 0
    /\ stored = {settings.custom_profiles}

\* A thread begins a call.
Begin(t, c) ==
    /\ pc[t] = "idle"
    /\ \A u \in Threads : u < t => pc[u] # "idle"
    /\ ncalls < MaxCalls
    /\ ncalls' = ncalls + 1
    /\ call' = [call EXCEPT ![t] = c]

\* A thread reaches a return of its call, with the value it returns.
Return(t, r) ==
    /\ pc' = [pc EXCEPT ![t] = "return"]
    /\ result' = [result EXCEPT ![t] = r]

\* The call is over: the caller has the value and the locals are gone.
Finish(t) ==
    /\ pc[t] = "return"
    /\ pc' = [pc EXCEPT ![t] = "idle"]
    /\ call' = [call EXCEPT ![t] = NoCall]
    /\ loc' = [loc EXCEPT ![t] = NoLocals]
    /\ result' = [result EXCEPT ![t] = NoResult]
    /\ UNCHANGED <<settings, profiles, guard, http, ncalls, stored>>

Goto(t, label) ==
    /\ pc' = [pc EXCEPT ![t] = label]
    /\ result' = [result EXCEPT ![t] = NoResult]

\* ------------------------------------------------------- settings commands

\* The body shared by the six mutators: get_settings, assign one field of the
\* copy; write_settings is the thread's next step.
ChangeSetting(t, op, changed) ==
    /\ Begin(t, Call(op))
    /\ loc' = [loc EXCEPT ![t] = [NoLocals EXCEPT !.settings = <<changed>>]]
    /\ Goto(t, "write_settings")
    /\ UNCHANGED <<settings, profiles, guard, http, stored>>

change_summarization_enabled_setting(t, enabled) ==
    ChangeSetting(t, "change_summarization_enabled_setting",
                  [settings EXCEPT !.enable_summarization = enabled])

change_active_profile_setting(t, profile_id) ==
    ChangeSetting(t, "change_active_profile_setting",
                  [settings EXCEPT !.active_profile_id = profile_id])

change_llm_endpoint_setting(t, endpoint) ==
    ChangeSetting(t, "change_llm_endpoint_setting",
                  [settings EXCEPT !.llm_endpoint = endpoint])

change_llm_model_setting(t, model) ==
    ChangeSetting(t, "change_llm_model_setting",
                  [settings EXCEPT !.llm_model = model])

change_llm_api_type_setting(t, api_type) ==
    ChangeSetting(t, "change_llm_api_type_setting",
                  [settings EXCEPT !.llm_api_type = api_type])

change_llm_timeout_setting(t, timeout) ==
    ChangeSetting(t, "change_llm_timeout_setting",
                  [settings EXCEPT !.llm_timeout_seconds = timeout])

ReloadingOps == {"save_custom_profile", "delete_custom_profile"}

\* write_settings(&app, settings), the last statement of a mutator and the
\* statement before the reload in save and delete.
write_settings(t) ==
    /\ pc[t] = "write_settings"
    /\ settings' = loc[t].settings[1]
    /\ stored' = stored \cup {settings'.custom_profiles}
    /\ IF call[t].op \in ReloadingOps
       THEN Goto(t, "reload_profiles")
       ELSE Return(t, Ok)
    /\ UNCHANGED <<profiles, guard, call, loc, http, ncalls>>

\* -------------------------------------------------------- profile commands

\* save_custom_profile, "Validate profile": the error message, or "" when the
\* profile passes.  This slip leaves the template unchecked.
ValidateIdAndNameOnly(profile) ==
    IF profile.id = "" THEN "Profile ID cannot be empty"
    ELSE IF profile.name = "" THEN "Profile name cannot be empty"
    ELSE ""

\* A plausible slip: the template is checked for being non-empty only.
ValidateTemplateNonEmpty(profile) ==
    IF profile.id = "" THEN "Profile ID cannot be empty"
    ELSE IF profile.name = "" THEN "Profile name cannot be empty"
    ELSE IF profile.user_prompt_template = <<>>
         THEN "User prompt template must contain {transcription} placeholder"
    ELSE ""

ValidateProfile(profile) ==
    IF profile.id = "" THEN "Profile ID cannot be empty"
    ELSE IF profile.name = "" THEN "Profile name cannot be empty"
    ELSE IF ~Contains(profile.user_prompt_template, Placeholder)
         THEN "User prompt template must contain {transcription} placeholder"
    ELSE ""

\* iter().position(|p| p.id == id): the first index, 0 when there is none.
Position(custom_profiles, id) ==
    IF \E i \in DOMAIN custom_profiles : custom_profiles[i].id = id
    THEN CHOOSE i \in DOMAIN custom_profiles :
            /\ custom_profiles[i].id = id
            /\ \A j \in 1..(i - 1) : custom_profiles[j].id # id
    ELSE 0

\* A plausible slip: a stored profile with the id is left as it is.
UpsertSkipsExisting(custom_profiles, profile) ==
    IF Position(custom_profiles, profile.id) # 0
    THEN custom_profiles
    ELSE Append(custom_profiles, profile)

\* A plausible slip: the profile is pushed whether its id is stored or not.
UpsertAlwaysPushes(custom_profiles, profile) == Append(custom_profiles, profile)

\* save_custom_profile, "Check if updating existing or adding new".
Upsert(custom_profiles, profile) ==
    LET pos == Position(custom_profiles, profile.id)
    IN  IF pos # 0
        THEN [custom_profiles EXCEPT ![pos] = profile]
        ELSE Append(custom_profiles, profile)

\* Vec::retain(|p| p.id != id)
RECURSIVE Retain(_, _)
Retain(custom_profiles, id) ==
    IF custom_profiles = <<>> THEN <<>>
    ELSE IF Head(custom_profiles).id # id
         THEN <<Head(custom_profiles)>> \o Retain(Tail(custom_profiles), id)
         ELSE Retain(Tail(custom_profiles), id)

\* A plausible slip: the active profile is left as it is.
DeleteKeepingActive(s, profile_id) ==
    [s EXCEPT !.custom_profiles = Retain(@, profile_id)]

\* delete_custom_profile: the settings it writes.
DeleteFromSettings(s, profile_id) ==
    [s EXCEPT !.custom_profiles = Retain(@, profile_id),
              !.active_profile_id = IF @ = profile_id THEN "raw" ELSE @]

\* delete_custom_profile, "Check if trying to delete a built-in profile":
\* iter().find() over the stored custom profiles.
DeleteRejected(s, profile_id) ==
    LET pos == Position(s.custom_profiles, profile_id)
    IN  pos # 0 /\ s.custom_profiles[pos].is_built_in

save_custom_profile(t, profile) ==
    /\ Begin(t, [Call("save_custom_profile") EXCEPT !.profile = <<profile>>])
    /\ LET message == ValidateProfile(profile)
       IN  IF message # ""
           THEN /\ Return(t, Err(message))
                /\ loc' = [loc EXCEPT ![t] = NoLocals]
           ELSE /\ Goto(t, "write_settings")
                /\ loc' = [loc EXCEPT ![t] =
                      [NoLocals EXCEPT !.settings =
                          <<[settings EXCEPT !.custom_profiles = Upsert(@, profile)]>>]]
    /\ UNCHANGED <<settings, profiles, guard, http, stored>>

delete_custom_profile(t, profile_id) ==
    /\ Begin(t, [Call("delete_custom_profile") EXCEPT !.profile_id = profile_id])
    /\ IF DeleteRejected(settings, profile_id)
       THEN /\ Return(t, Err("Cannot delete built-in profile"))
            /\ loc' = [loc EXCEPT ![t] = NoLocals]
       ELSE /\ Goto(t, "write_settings")
            /\ loc' = [loc EXCEPT ![t] =
                  [NoLocals EXCEPT !.settings =
                      <<DeleteFromSettings(settings, profile_id)>>]]
    /\ UNCHANGED <<settings, profiles, guard, http, stored>>

\* ----------------------------------------------------------------- reload

\* reload_profiles, first statement: load_profiles_from_app reads the settings
\* and builds the new map, the Mutex not yet taken.
LoadNewProfiles(t) ==
    /\ loc' = [loc EXCEPT ![t].new_profiles =
                              <<load_profiles(settings.custom_profiles)>>]
    /\ Goto(t, "reload_lock")
    /\ UNCHANGED <<settings, profiles, guard, http, stored>>

\* reload_profiles called on its own.
reload_profiles(t) ==
    /\ Begin(t, Call("reload_profiles"))
    /\ LoadNewProfiles(t)

\* reload_profiles called by save_custom_profile and delete_custom_profile.
ReloadAfterWrite(t) ==
    /\ pc[t] = "reload_profiles"
    /\ LoadNewProfiles(t)
    /\ UNCHANGED <<call, ncalls>>

\* self.profiles.lock()
ReloadLock(t) ==
    /\ pc[t] = "reload_lock"
    /\ guard = Free
    /\ guard' = t
    /\ Goto(t, "reload_assign")
    /\ UNCHANGED <<settings, profiles, call, loc, http, ncalls, stored>>

\* A plausible slip: the map is rebuilt in place and the guard let go after
\* the built-in profiles are seeded.
InstallBuiltInsOnly(new_profiles) ==
    [k \in {p.id : p \in ProfileValues(new_profiles)} \cap
           {get_built_in_profiles[i].id : i \in DOMAIN get_built_in_profiles}
        |-> new_profiles[k]]

\* What `*profiles = new_profiles` leaves in the Mutex.
Installed(new_profiles) == new_profiles

\* *profiles = new_profiles; Ok(()): the guard is dropped on return.
ReloadAssign(t) ==
    /\ pc[t] = "reload_assign"
    /\ guard = t
    /\ profiles' = Installed(loc[t].new_profiles[1])
    /\ guard' = Free
    /\ Return(t, Ok)
    /\ UNCHANGED <<settings, call, loc, http, ncalls, stored>>

\* ------------------------------------------------------- get_all_profiles

\* sm.profiles.lock()
get_all_profiles(t) ==
    /\ Begin(t, Call("get_all_profiles"))
    /\ guard = Free
    /\ guard' = t
    /\ loc' = [loc EXCEPT ![t] = NoLocals]
    /\ Goto(t, "get_all_values")
    /\ UNCHANGED <<settings, profiles, http, stored>>

\* Ok(profiles.values().cloned().collect()); the guard is dropped on return.
GetAllValues(t) ==
    /\ pc[t] = "get_all_values"
    /\ guard = t
    /\ guard' = Free
    /\ Return(t, OkList(ProfileValues(profiles)))
    /\ UNCHANGED <<settings, profiles, call, loc, http, ncalls, stored>>

\* ------------------------------------------------------------- dispatcher

\* A plausible slip: the pass-through is recognised by its empty template.
BypassesByEmptyTemplate(profile) == profile.user_prompt_template = <<>>

\* process_with_profile, "Special case": profile.id == "raw".
BypassesProcessing(profile) == profile.id = "raw"

\* A plausible slip: the two conditions are joined by && .
DetectApiTypeBoth(endpoint, hint) ==
    IF Contains(endpoint, V1Segment) /\ hint = "OpenAI" THEN "OpenAI" ELSE "Ollama"

\* process_with_profile, "Detect API type based on endpoint".
DetectApiType(endpoint, hint) ==
    IF Contains(endpoint, V1Segment) \/ hint = "OpenAI" THEN "OpenAI" ELSE "Ollama"

ApiGenerate == <<"/", "a", "p", "i", "/", "g", "e", "n", "e", "r", "a", "t", "e">>

ChatCompletions ==
    <<"/", "c", "h", "a", "t", "/", "c", "o", "m", "p", "l", "e", "t", "i", "o", "n", "s">>

\* call_ollama: format!("{}/api/generate", endpoint.trim_end_matches('/'))
OllamaUrl(endpoint) == TrimEndMatches(endpoint, Slash) \o ApiGenerate

\* A plausible slip: the two trims in the other order.
OpenAIUrlV1First(endpoint) ==
    TrimEndMatches(TrimEndMatches(endpoint, V1Suffix), Slash) \o ChatCompletions

\* call_openai_compatible: format!("{}/chat/completions",
\*     endpoint.trim_end_matches('/').trim_end_matches("/v1"))
OpenAIUrl(endpoint) ==
    TrimEndMatches(TrimEndMatches(endpoint, Slash), V1Suffix) \o ChatCompletions

\* call_ollama, "Combine system and user prompts".
CombinedPrompt(profile, user_prompt) ==
    IF profile.system_prompt # <<>>
    THEN <<"System: ">> \o profile.system_prompt \o <<"\n", "\n", "User: ">> \o user_prompt
    ELSE user_prompt

\* call_openai_compatible: the messages of the request.
Messages(profile, user_prompt) ==
    (IF profile.system_prompt # <<>>
     THEN <<[role |-> "system", content |-> profile.system_prompt]>>
     ELSE <<>>)
    \o <<[role |-> "user", content |-> user_prompt]>>

OllamaRequest(endpoint, model, profile, user_prompt) ==
    [api |-> "Ollama", url |-> OllamaUrl(endpoint), model |-> model,
     prompt |-> CombinedPrompt(profile, user_prompt), messages |-> <<>>]

OpenAIRequest(endpoint, model, profile, user_prompt) ==
    [api |-> "OpenAI", url |-> OpenAIUrl(endpoint), model |-> model,
     prompt |-> <<>>, messages |-> Messages(profile, user_prompt)]

\* What the network may answer: no answer (a transport error or the client's
\* time-out), a status with a body, and whether the body parses as the
\* adapter's response type.
NoAnswer == [transport |-> FALSE, status |-> 0, body |-> <<>>, parsed |-> <<>>]

Answer(status, body, parsed) ==
    [transport |-> TRUE, status |-> status, body |-> body, parsed |-> parsed]

OllamaResponses ==
    {NoAnswer,
     Answer(500, <<"boom">>, <<>>),
     Answer(200, <<"<html>">>, <<>>),
     Answer(200, <<"{..}">>, <<[response |-> <<" ", "o", "k", "\n">>, done |-> TRUE]>>)}

OpenAIResponses ==
    {NoAnswer,
     Answer(404, <<"nope">>, <<>>),
     Answer(200, <<"<html>">>, <<>>),
     Answer(200, <<"{..}">>, <<[choices |-> <<>>]>>),
     Answer(200, <<"{..}">>,
            <<[choices |-> <<[message |-> [role |-> "assistant",
                                           content |-> <<"\t", "o", "k", " ">>]],
                             [message |-> [role |-> "assistant",
                                           content |-> <<"2">>]]>>]>>)}

\* StatusCode::is_success
IsSuccess(status) == 200 <= status /\ status < 300

ErrStatus(message, status, body) ==
    [Err(message) EXCEPT !.code = status, !.text = body]

\* A plausible slip: the status and the body of a refused request are dropped.
OllamaResultStatusLost(r) ==
    IF ~r.transport THEN Err("Failed to connect to Ollama")
    ELSE IF ~IsSuccess(r.status) THEN Err("Ollama error")
    ELSE IF r.parsed = <<>> THEN Err("Invalid response from Ollama")
    ELSE OkText(Trim(r.parsed[1].response))

\* call_ollama, from the answer on.
OllamaResult(r) ==
    IF ~r.transport THEN Err("Failed to connect to Ollama")
    ELSE IF ~IsSuccess(r.status) THEN ErrStatus("Ollama error", r.status, r.body)
    ELSE IF r.parsed = <<>> THEN Err("Invalid response from Ollama")
    ELSE OkText(Trim(r.parsed[1].response))

\* A plausible slip: an empty list of choices gives the default text.
OpenAIResultEmptyDefault(r) ==
    IF ~r.transport THEN Err("error sending request")
    ELSE IF ~IsSuccess(r.status) THEN ErrStatus("OpenAI API error", r.status, r.body)
    ELSE IF r.parsed = <<>> THEN Err("error decoding response body")
    ELSE IF r.parsed[1].choices = <<>> THEN OkText(<<>>)
    ELSE OkText(Trim(r.parsed[1].choices[1].message.content))

\* call_openai_compatible, from the answer on.
OpenAIResult(r) ==
    IF ~r.transport THEN Err("error sending request")
    ELSE IF ~IsSuccess(r.status) THEN ErrStatus("OpenAI API error", r.status, r.body)
    ELSE IF r.parsed = <<>> THEN Err("error decoding response body")
    ELSE IF r.parsed[1].choices = <<>> THEN Err("No choices in OpenAI response")
    ELSE OkText(Trim(r.parsed[1].choices[1].message.content))

\* process_with_profile: self.profiles.lock()
process_with_profile(t, raw_text, profile_id) ==
    /\ Begin(t, [Call("process_with_profile") EXCEPT
                    !.raw_text = raw_text, !.profile_id = profile_id])
    /\ guard = Free
    /\ guard' = t
    /\ loc' = [loc EXCEPT ![t] = NoLocals]
    /\ Goto(t, "process_lookup")
    /\ UNCHANGED <<settings, profiles, http, stored>>

\* A plausible slip: the guard lives to the end of the function.
GuardKept(t) == t

\* The holder of the Mutex once the block `let profile = { .. };` is left.
GuardAfterLookup(t) == Free

\* profiles.get(profile_id).ok_or_else(..)?.clone(), the end of the block that
\* holds the guard, and the "raw" special case.
ProcessLookup(t) ==
    /\ pc[t] = "process_lookup"
    /\ guard = t
    /\ guard' = GuardAfterLookup(t)
    /\ LET found == LookupProfile(profiles, call[t].profile_id)
       IN  /\ loc' = [loc EXCEPT ![t].profile = found]
           /\ IF found = <<>>
              THEN Return(t, Err("Profile not found"))
              ELSE IF BypassesProcessing(found[1])
                   THEN Return(t, OkText(call[t].raw_text))
                   ELSE Goto(t, "process_settings")
    /\ UNCHANGED <<settings, profiles, call, http, ncalls, stored>>

\* A plausible slip: the prompt is formatted from the profile the registry
\* holds now, not from the copy taken at the lookup.
ProcessSettingsRereading(t) ==
    [loc[t] EXCEPT !.endpoint = <<settings.llm_endpoint>>,
                   !.model = <<settings.llm_model>>,
                   !.hint = <<settings.llm_api_type>>,
                   !.api_type = <<DetectApiType(settings.llm_endpoint,
                                                settings.llm_api_type)>>,
                   !.user_prompt =
                       <<format_prompt(
                           IF call[t].profile_id \in DOMAIN profiles
                           THEN profiles[call[t].profile_id]
                           ELSE loc[t].profile[1],
                           call[t].raw_text)>>]

\* process_with_profile from get_settings to the choice of the adapter: the
\* locals the adapter is called with.
ProcessSettings(t) ==
    [loc[t] EXCEPT !.endpoint = <<settings.llm_endpoint>>,
                   !.model = <<settings.llm_model>>,
                   !.hint = <<settings.llm_api_type>>,
                   !.api_type = <<DetectApiType(settings.llm_endpoint,
                                                settings.llm_api_type)>>,
                   !.user_prompt =
                       <<format_prompt(loc[t].profile[1], call[t].raw_text)>>]

\* self.client.post(&url).json(&request).send()
Send(t, request) ==
    /\ http' = [http EXCEPT ![t] = <<request>>]
    /\ UNCHANGED <<settings, profiles, guard, call, ncalls, stored>>

\* get_settings, ApiType::Ollama selected, call_ollama up to .send()
call_ollama(t) ==
    /\ pc[t] = "process_settings"
    /\ LET l == ProcessSettings(t)
       IN  /\ l.api_type = <<"Ollama">>
           /\ loc' = [loc EXCEPT ![t] = [l EXCEPT !.sent = @ + 1]]
           /\ Send(t, OllamaRequest(l.endpoint[1], l.model[1],
                                    l.profile[1], l.user_prompt[1]))
    /\ Goto(t, "ollama_await")

\* A plausible slip: a request that failed is sent again.
OllamaAnswerRetrying(t, r) ==
    /\ pc[t] = "ollama_await"
    /\ http' = [http EXCEPT ![t] = <<>>]
    /\ loc' = [loc EXCEPT ![t].response = <<r>>]
    /\ IF OllamaResult(r).status = "err"
       THEN Goto(t, "process_settings")
       ELSE Return(t, OllamaResult(r))
    /\ UNCHANGED <<settings, profiles, guard, call, ncalls, stored>>

\* call_ollama from .await on: the answer is the local `response`.
OllamaAnswer(t, r) ==
    /\ pc[t] = "ollama_await"
    /\ http' = [http EXCEPT ![t] = <<>>]
    /\ loc' = [loc EXCEPT ![t].response = <<r>>]
    /\ Return(t, OllamaResult(r))
    /\ UNCHANGED <<settings, profiles, guard, call, ncalls, stored>>

\* get_settings, ApiType::OpenAI selected, call_openai_compatible up to
\* .send()
call_openai_compatible(t) ==
    /\ pc[t] = "process_settings"
    /\ LET l == ProcessSettings(t)
       IN  /\ l.api_type = <<"OpenAI">>
           /\ loc' = [loc EXCEPT ![t] = [l EXCEPT !.sent = @ + 1]]
           /\ Send(t, OpenAIRequest(l.endpoint[1], l.model[1],
                                    l.profile[1], l.user_prompt[1]))
    /\ Goto(t, "openai_await")

\* call_openai_compatible from .await on: the answer is the local `response`.
OpenAIAnswer(t, r) ==
    /\ pc[t] = "openai_await"
    /\ http' = [http EXCEPT ![t] = <<>>]
    /\ loc' = [loc EXCEPT ![t].response = <<r>>]
    /\ Return(t, OpenAIResult(r))
    /\ UNCHANGED <<settings, profiles, guard, call, ncalls, stored>>

\* ---------------------------------------------------- check_llm_availability

ApiVersion == <<"/", "a", "p", "i", "/", "v", "e", "r", "s", "i", "o", "n">>

\* format!("{}/api/version", endpoint.trim_end_matches('/'))
VersionUrl(endpoint) == TrimEndMatches(endpoint, Slash) \o ApiVersion

VersionRequest(endpoint) ==
    [api |-> "version", url |-> VersionUrl(endpoint), model |-> "",
     prompt |-> <<>>, messages |-> <<>>]

VersionResponses ==
    {NoAnswer,
     Answer(503, <<"down">>, <<>>),
     Answer(200, <<"{..}">>, <<>>)}

\* A plausible slip: any answer counts, whatever its status.
AvailableOnAnyAnswer(r) == r.transport

\* The arms of `match self.client.get(&url).send().await`.
Available(r) == r.transport /\ IsSuccess(r.status)

\* check_llm_availability up to .send()
check_llm_availability(t) ==
    /\ Begin(t, Call("check_llm_availability"))
    /\ loc' = [loc EXCEPT ![t] =
                  [NoLocals EXCEPT !.endpoint = <<settings.llm_endpoint>>,
                                   !.sent = 1]]
    /\ http' = [http EXCEPT ![t] = <<VersionRequest(settings.llm_endpoint)>>]
    /\ Goto(t, "version_await")
    /\ UNCHANGED <<settings, profiles, guard, stored>>

\* check_llm_availability from .await on
AvailabilityAnswer(t, r) ==
    /\ pc[t] = "version_await"
    /\ http' = [http EXCEPT ![t] = <<>>]
    /\ loc' = [loc EXCEPT ![t].response = <<r>>]
    /\ Return(t, Bool(Available(r)))
    /\ UNCHANGED <<settings, profiles, guard, call, ncalls, stored>>

\* ---------------------------------------------------------- specifications

\* The calls a thread may begin.
BeginCommand(t) ==
    \/ \E enabled \in Enabled : change_summarization_enabled_setting(t, enabled)
    \/ \E profile_id \in ActiveIds : change_active_profile_setting(t, profile_id)
    \/ \E endpoint \in Endpoints : change_llm_endpoint_setting(t, endpoint)
    \/ \E model \in Models : change_llm_model_setting(t, model)
    \/ \E api_type \in ApiTypeInputs : change_llm_api_type_setting(t, api_type)
    \/ \E timeout \in Timeouts : change_llm_timeout_setting(t, timeout)
    \/ \E profile \in ProfileInputs : save_custom_profile(t, profile)
    \/ \E profile_id \in DeleteIds : delete_custom_profile(t, profile_id)
    \/ get_all_profiles(t)
    \/ reload_profiles(t)

BeginAsync(t) ==
    \/ \E raw_text \in RawTexts, profile_id \in ProcessIds :
          process_with_profile(t, raw_text, profile_id)
    \/ check_llm_availability(t)

\* The steps inside a call.
Step(t) ==
    \/ write_settings(t)
    \/ ReloadAfterWrite(t)
    \/ ReloadLock(t)
    \/ ReloadAssign(t)
    \/ GetAllValues(t)
    \/ ProcessLookup(t)
    \/ call_ollama(t)
    \/ \E r \in OllamaResponses : OllamaAnswer(t, r)
    \/ call_openai_compatible(t)
    \/ \E r \in OpenAIResponses : OpenAIAnswer(t, r)
    \/ \E r \in VersionResponses : AvailabilityAnswer(t, r)
    \/ Finish(t)

\* Every call may run on any thread, interleaved step by step with the others.
Next == \E t \in Threads : BeginCommand(t) \/ BeginAsync(t) \/ Step(t)

Spec == Init /\ [][Next]_vars

\* The commands and reload_profiles are synchronous and run one at a time;
\* process_with_profile is async and runs beside them.
AsyncOps == {"process_with_profile", "check_llm_availability"}

NoCommandRunning == \A u \in Threads : pc[u] = "idle" \/ call[u].op \in AsyncOps

NextSerial ==
    \E t \in Threads :
        \/ \E enabled \in Enabled :
              NoCommandRunning /\ change_summarization_enabled_setting(t, enabled)
        \/ \E profile_id \in ActiveIds :
              NoCommandRunning /\ change_active_profile_setting(t, profile_id)
        \/ \E endpoint \in Endpoints :
              NoCommandRunning /\ change_llm_endpoint_setting(t, endpoint)
        \/ \E model \in Models :
              NoCommandRunning /\ change_llm_model_setting(t, model)
        \/ \E api_type \in ApiTypeInputs :
              NoCommandRunning /\ change_llm_api_type_setting(t, api_type)
        \/ \E timeout \in Timeouts :
              NoCommandRunning /\ change_llm_timeout_setting(t, timeout)
        \/ \E profile \in ProfileInputs :
              NoCommandRunning /\ save_custom_profile(t, profile)
        \/ \E profile_id \in DeleteIds :
              NoCommandRunning /\ delete_custom_profile(t, profile_id)
        \/ NoCommandRunning /\ get_all_profiles(t)
        \/ NoCommandRunning /\ reload_profiles(t)
        \/ BeginAsync(t)
        \/ Step(t)

SpecSerial == Init /\ [][NextSerial]_vars

\* The OpenAI-compatible adapter alone, for every endpoint made of the host
\* and at most MaxSegments path segments: the store holds the endpoint, the
\* OpenAI hint and one custom profile, and process_with_profile calls run.
MaxSegments == 3

PathSegments == {Slash, V1Suffix, <<"/", "a">>}

RECURSIVE Flatten(_)
Flatten(parts) ==
    IF parts = <<>> THEN <<>> ELSE Head(parts) \o Flatten(Tail(parts))

EndpointInputs ==
    {Host \o Flatten(parts) :
        parts \in UNION {[1..n -> PathSegments] : n \in 0..MaxSegments}}

InitUrl ==
    /\ settings \in {[DefaultSettings EXCEPT !.llm_endpoint = e,
                                              !.llm_api_type = "OpenAI",
                                              !.custom_profiles = <<CustomOne>>] :
                        e \in EndpointInputs}
    /\ profiles = load_profiles(settings.custom_profiles)
    /\ guard = Free
    /\ pc = [t \in Threads |-> "idle"]
    /\ call = [t \in Threads |-> NoCall]
    /\ loc = [t \in Threads |-> NoLocals]
    /\ result = [t \in Threads |-> NoResult]
    /\ http = [t \in Threads |-> <<>>]
    /\ ncalls = 0
    /\ stored = {settings.custom_profiles}

NextUrl ==
    \E t \in Threads :
        \/ process_with_profile(t, <<"h", "i">>, "custom_1")
        \/ ProcessLookup(t)
        \/ call_openai_compatible(t)
        \/ \E r \in OpenAIResponses : OpenAIAnswer(t, r)
        \/ Finish(t)

SpecUrl == InitUrl /\ [][NextUrl]_vars

\* Profile::format_prompt alone, called as test_profile_prompt_formatting
\* calls it: on a profile whose template is any text of at most MaxPieces
\* pieces, with any of the raw texts.
MaxPieces == 3

TemplatePieces == {Placeholder, <<"a">>, <<"{">>, <<"}">>}

TemplateInputs ==
    {Flatten(parts) :
        parts \in UNION {[1..n -> TemplatePieces] : n \in 0..MaxPieces}}

PromptTexts == {<<>>, <<"h", "i">>, <<"x">> \o Placeholder}

InitPrompt ==
    /\ settings = DefaultSettings
    /\ profiles = load_profiles(settings.custom_profiles)
    /\ guard = Free
    /\ pc = [t \in Threads |-> IF t = 1 THEN "format_prompt" ELSE "idle"]
    /\ \E template \in TemplateInputs, raw_text \in PromptTexts :
          call = [t \in Threads |->
                    IF t = 1
                    THEN [Call("format_prompt") EXCEPT
                            !.profile = <<new_custom("test", "Test", "Test",
                                                     <<"System">>, template, "t1")>>,
                            !.raw_text = raw_text]
                    ELSE NoCall]
    /\ loc = [t \in Threads |-> NoLocals]
    /\ result = [t \in Threads |-> NoResult]
    /\ http = [t \in Threads |-> <<>>]
    /\ ncalls = 1
    /\ stored = {settings.custom_profiles}

\* let result = profile.format_prompt(raw_text);
FormatPrompt(t) ==
    /\ pc[t] = "format_prompt"
    /\ Return(t, OkText(format_prompt(call[t].profile[1], call[t].raw_text)))
    /\ UNCHANGED <<settings, profiles, guard, call, loc, http, ncalls, stored>>

NextPrompt == \E t \in Threads : FormatPrompt(t) \/ Finish(t)

SpecPrompt == InitPrompt /\ [][NextPrompt]_vars

\* ------------------------------------------------------------------ claims

\* Thread t begins a call of op in this step.
Begins(t, op) == pc[t] = "idle" /\ call'[t].op = op

\* Thread t is at a return of a call of op.
Returns(t, op) == pc[t] = "return" /\ call[t].op = op

\* Thread t is inside a call of op, its return included.
Inside(t, op) == pc[t] # "idle" /\ call[t].op = op

\* C1: a delete_custom_profile(id) whose id the registry maps to a profile
\* flagged is_built_in returns a validation error at once, and the registry
\* is as it was.
C1_DeleteOfBuiltInRejected ==
    [][\A t \in Threads :
          ( /\ Begins(t, "delete_custom_profile")
            /\ call'[t].profile_id \in DOMAIN profiles
            /\ profiles[call'[t].profile_id].is_built_in )
          => /\ pc'[t] = "return"
             /\ result'[t] = Err("Cannot delete built-in profile")
             /\ profiles' = profiles]_vars

\* C2: a process_with_profile call whose looked-up profile has the id "raw"
\* is at its return with exactly the raw text it was given, has read no
\* backend setting and has sent no request.
C2_RawReturnsInputUnchanged ==
    \A t \in Threads :
        ( /\ call[t].op = "process_with_profile"
          /\ loc[t].profile # <<>>
          /\ loc[t].profile[1].id = "raw" )
        => /\ pc[t] = "return"
           /\ result[t] = OkText(call[t].raw_text)
           /\ loc[t].sent = 0
           /\ http[t] = <<>>
           /\ loc[t].endpoint = <<>>

C2_Witness ==
    \E t \in Threads :
        /\ Returns(t, "process_with_profile")
        /\ loc[t].profile = <<CustomRaw>>
        /\ call[t].raw_text = <<" ", "h", "i", "\n">>
        /\ result[t].text = <<" ", "h", "i", "\n">>

\* The profiles save_custom_profile has to turn down.
Invalid(profile) ==
    \/ profile.id = ""
    \/ profile.name = ""
    \/ ~Contains(profile.user_prompt_template, Placeholder)

ValidationMessages ==
    {"Profile ID cannot be empty", "Profile name cannot be empty",
     "User prompt template must contain {transcription} placeholder"}

\* C3: save_custom_profile of a profile with an empty id, an empty name or a
\* template without the placeholder returns a validation error in its first
\* step, which changes neither the registry nor the stored settings; no such
\* call is ever at write_settings or in reload_profiles.
C3_InvalidSaveRejected ==
    /\ [][\A t \in Threads :
             ( /\ Begins(t, "save_custom_profile")
               /\ Invalid(call'[t].profile[1]) )
             => /\ pc'[t] = "return"
                /\ result'[t].status = "err"
                /\ result'[t].err \in ValidationMessages
                /\ settings' = settings
                /\ profiles' = profiles
                /\ stored' = stored]_vars
    /\ [](\A t \in Threads :
             ( /\ Inside(t, "save_custom_profile")
               /\ Invalid(call[t].profile[1]) )
             => pc[t] = "return" /\ result[t].status = "err")

C3_Witness ==
    \E t \in Threads :
        /\ Returns(t, "save_custom_profile")
        /\ call[t].profile = <<NoPlaceholder>>
        /\ result[t].status = "err"
        /\ settings.custom_profiles = <<CustomOne>>

BuiltInIds == {"professional", "llm_agent", "email", "notes", "code_comments", "raw"}

\* C4: the registry has an entry for each of the six built-in ids in every
\* state.
C4_BuiltInIdsPermanent == BuiltInIds \subseteq DOMAIN profiles

C4_Witness ==
    \E t \in Threads :
        /\ Returns(t, "delete_custom_profile")
        /\ call[t].profile_id = "professional"
        /\ result[t].status = "ok"

\* C5: the registry is in every state the complete result of a load of
\* settings the store has held, and so is what a reader takes from it: the
\* list get_all_profiles returns, and the profile (or the absence of one) that
\* the lookup of process_with_profile finds.
C5_ReadersSeeCompleteMapping ==
    /\ \E cs \in stored : profiles = load_profiles(cs)
    /\ \A t \in Threads :
          /\ Returns(t, "get_all_profiles")
                => \E cs \in stored :
                      result[t].list = ProfileValues(load_profiles(cs))
          /\ (Inside(t, "process_with_profile") /\ pc[t] # "process_lookup")
                => \E cs \in stored :
                      loc[t].profile =
                          LookupProfile(load_profiles(cs), call[t].profile_id)

\* get_all_profiles has read while a reload that changes the registry waits.
C5_Witness ==
    \E t, u \in Threads :
        /\ Returns(t, "get_all_profiles")
        /\ pc[u] = "reload_lock"
        /\ loc[u].new_profiles # <<profiles>>
        /\ result[t].list = ProfileValues(profiles)

\* C6: the guard is held only inside the three short critical sections; a
\* process_with_profile call that reads the settings, is about to send or has
\* a request in flight does not hold it.
C6_NoRequestUnderGuard ==
    \A t \in Threads :
        /\ guard = t => pc[t] \in {"process_lookup", "get_all_values", "reload_assign"}
        /\ http[t] # <<>> => guard # t
        /\ pc[t] \in {"process_settings", "ollama_await", "openai_await"} => guard # t

\* A reload holds the guard while another call's request is in flight.
C6_Witness ==
    \E t, u \in Threads :
        /\ http[t] # <<>>
        /\ pc[u] = "reload_assign"
        /\ guard = u

\* C7: with the commands run one at a time, a delete_custom_profile(id) that
\* is not turned down decides on "raw" exactly when the active id equals id;
\* from its begin to its return the active id changes in its own
\* write_settings only; and at its return the active id is what it decided.
C7_DeleteResetsActive ==
    /\ [][\A t \in Threads :
             /\ (Begins(t, "delete_custom_profile") /\ pc'[t] # "return")
                   => loc'[t].settings[1].active_profile_id =
                         IF settings.active_profile_id = call'[t].profile_id
                         THEN "raw"
                         ELSE settings.active_profile_id
             /\ ( /\ Inside(t, "delete_custom_profile")
                  /\ ~(pc[t] = "write_settings" /\ pc'[t] # "write_settings") )
                   => settings'.active_profile_id = settings.active_profile_id]_vars
    /\ [](\A t \in Threads :
             (Returns(t, "delete_custom_profile") /\ result[t].status = "ok")
                => settings.active_profile_id = loc[t].settings[1].active_profile_id)

C7_Witness ==
    \E t \in Threads :
        /\ Returns(t, "delete_custom_profile")
        /\ call[t].profile_id = "custom_1"
        /\ result[t].status = "ok"
        /\ ncalls = 1
        /\ settings.llm_api_type = "OpenAI"
        /\ settings.active_profile_id = "raw"

\* C8: with the commands run one at a time, the registry does not change
\* during a save_custom_profile(p) but in the last step of its reload; that
\* step returns Ok, maps p.id to p, leaves every other id as it was, and p is
\* among the values get_all_profiles lists.
C8_SaveInstallsProfile ==
    /\ [][\A t \in Threads :
             Inside(t, "save_custom_profile")
             => IF pc[t] = "reload_assign" /\ pc'[t] # "reload_assign"
                THEN LET p == call[t].profile[1]
                     IN  /\ pc'[t] = "return"
                         /\ result'[t].status = "ok"
                         /\ p.id \in DOMAIN profiles'
                         /\ profiles'[p.id] = p
                         /\ p \in ProfileValues(profiles')
                         /\ (DOMAIN profiles') \ {p.id} = (DOMAIN profiles) \ {p.id}
                         /\ \A k \in (DOMAIN profiles) \ {p.id} :
                               profiles'[k] = profiles[k]
                ELSE profiles' = profiles]_vars
    /\ [](\A t \in Threads :
             (Returns(t, "save_custom_profile") /\ result[t].status = "ok")
                => /\ call[t].profile[1].id \in DOMAIN profiles
                   /\ profiles[call[t].profile[1].id] = call[t].profile[1])

C8_Witness ==
    \E t \in Threads :
        /\ Returns(t, "save_custom_profile")
        /\ call[t].profile = <<CustomRaw>>
        /\ result[t].status = "ok"
        /\ profiles["raw"] = CustomRaw
        /\ "custom_1" \in DOMAIN profiles

\* The endpoint has the characters / v 1 / in a row.
HasV1Segment(e) ==
    \E i \in 1..Len(e) :
        /\ i + 3 <= Len(e)
        /\ e[i] = "/" /\ e[i + 1] = "v" /\ e[i + 2] = "1" /\ e[i + 3] = "/"

\* C9: the API type a process_with_profile call selects is OpenAI exactly when
\* the endpoint it read has /v1/ in it or the hint it read is OpenAI, and the
\* request goes through the adapter of that type; so for the three endpoints
\* and hints the claim names.
C9_BackendSelection ==
    \A t \in Threads :
        loc[t].api_type # <<>> =>
            LET e == loc[t].endpoint[1]
                h == loc[t].hint[1]
                a == loc[t].api_type[1]
            IN  /\ a \in ApiTypes
                /\ a = "OpenAI" <=> (HasV1Segment(e) \/ h = "OpenAI")
                /\ e = EndpointV1Slash => a = "OpenAI"
                /\ (e = EndpointOllama /\ h = "Ollama") => a = "Ollama"
                /\ (e = EndpointOllama /\ h = "OpenAI") => a = "OpenAI"
                /\ pc[t] = "ollama_await" => a = "Ollama"
                /\ pc[t] = "openai_await" => a = "OpenAI"
                /\ http[t] # <<>> => http[t][1].api = a

C9_Witness ==
    \E t \in Threads :
        /\ http[t] # <<>>
        /\ loc[t].endpoint = <<EndpointV1Slash>>
        /\ loc[t].hint = <<"Ollama">>
        /\ http[t][1].api = "OpenAI"

\* C10: a lookup of an id that is no key of the registry at that moment ends
\* the call with the profile-not-found error and changes neither the
\* registry, the settings nor the requests in flight; a call at that return
\* has read no backend setting and has sent no request.
C10_MissingProfileFails ==
    /\ [][\A t \in Threads :
             ( /\ Inside(t, "process_with_profile")
               /\ pc[t] = "process_lookup" /\ pc'[t] # "process_lookup"
               /\ call[t].profile_id \notin DOMAIN profiles )
             => /\ pc'[t] = "return"
                /\ result'[t] = Err("Profile not found")
                /\ profiles' = profiles
                /\ settings' = settings
                /\ http' = http]_vars
    /\ [](\A t \in Threads :
             (Returns(t, "process_with_profile") /\ result[t].err = "Profile not found")
                => /\ loc[t].endpoint = <<>>
                   /\ loc[t].model = <<>>
                   /\ loc[t].hint = <<>>
                   /\ loc[t].sent = 0
                   /\ http[t] = <<>>)

C10_Witness ==
    \E t \in Threads :
        /\ Returns(t, "process_with_profile")
        /\ call[t].profile_id = "custom_1"
        /\ "custom_1" \notin DOMAIN profiles
        /\ result[t] = Err("Profile not found")

\* The answer is one of the three failures: no answer at all, a status
\* outside 200..299, or a body that does not parse.
Failed(r) == ~r.transport \/ r.status \notin 200..299 \/ r.parsed = <<>>

\* C11: a process_with_profile call sends at most one request: at its return
\* it has sent exactly one when its profile was found and is not "raw", and
\* none otherwise.  The step that receives a failed answer (transport failure,
\* status outside 2xx, unparsable body) is the call's last: it sends nothing,
\* leaves no request in flight and returns an error.
C11_AtMostOneRequest ==
    /\ [](\A t \in Threads :
             Inside(t, "process_with_profile") =>
                /\ loc[t].sent <= 1
                /\ http[t] # <<>> => loc[t].sent = 1
                /\ pc[t] = "return" =>
                      /\ loc[t].sent =
                            IF loc[t].profile # <<>> /\ loc[t].profile[1].id # "raw"
                            THEN 1 ELSE 0
                      /\ (loc[t].response # <<>> /\ Failed(loc[t].response[1]))
                            => result[t].status = "err")
    /\ [][\A t \in Threads :
             ( /\ pc[t] \in {"ollama_await", "openai_await"}
               /\ loc'[t].response # <<>>
               /\ Failed(loc'[t].response[1]) )
             => /\ pc'[t] = "return"
                /\ result'[t].status = "err"
                /\ http'[t] = <<>>
                /\ loc'[t].sent = loc[t].sent]_vars

C11_Witness ==
    \E t \in Threads :
        /\ Returns(t, "process_with_profile")
        /\ loc[t].sent = 1
        /\ loc[t].response = <<Answer(200, <<"<html>">>, <<>>)>>
        /\ result[t] = Err("Invalid response from Ollama")

\* C12: a call whose answer has a status outside 2xx, from either adapter,
\* returns an error that carries that status and the body of the answer, and
\* no text as a success.
C12_StatusCarried ==
    \A t \in Threads :
        ( /\ Returns(t, "process_with_profile")
          /\ loc[t].response # <<>>
          /\ loc[t].response[1].transport
          /\ loc[t].response[1].status \notin 200..299 )
        => /\ result[t].status = "err"
           /\ result[t].err =
                 IF loc[t].api_type = <<"Ollama">>
                 THEN "Ollama error" ELSE "OpenAI API error"
           /\ result[t].code = loc[t].response[1].status
           /\ result[t].text = loc[t].response[1].body

C12_Witness ==
    \E t \in Threads :
        /\ Returns(t, "process_with_profile")
        /\ loc[t].api_type = <<"Ollama">>
        /\ loc[t].response = <<Answer(500, <<"boom">>, <<>>)>>
        /\ result[t].code = 500
        /\ result[t].text = <<"boom">>

\* s is c without its leading and trailing white space.
IsTrimOf(s, c) ==
    \E i \in 1..(Len(c) + 1), j \in 0..Len(c) :
        /\ s = SubSeq(c, i, j)
        /\ \A k \in 1..(i - 1) : c[k] \in Whitespace
        /\ \A k \in (j + 1)..Len(c) : c[k] \in Whitespace
        /\ s # <<>> => (c[i] \notin Whitespace /\ c[j] \notin Whitespace)

\* C13: a 2xx answer of the OpenAI-compatible adapter that parses and has no
\* choice makes the call return the no-choices error, no text; with choices
\* the call returns the content of the first, trimmed.
C13_EmptyChoicesIsError ==
    \A t \in Threads :
        ( /\ Returns(t, "process_with_profile")
          /\ loc[t].api_type = <<"OpenAI">>
          /\ loc[t].response # <<>>
          /\ ~Failed(loc[t].response[1]) )
        => LET choices == loc[t].response[1].parsed[1].choices
           IN  IF choices = <<>>
               THEN /\ result[t].status = "err"
                    /\ result[t].err = "No choices in OpenAI response"
                    /\ result[t].text = <<>>
               ELSE /\ result[t].status = "ok"
                    /\ IsTrimOf(result[t].text, choices[1].message.content)

C13_Witness ==
    \E t \in Threads :
        /\ Returns(t, "process_with_profile")
        /\ loc[t].api_type = <<"OpenAI">>
        /\ loc[t].response # <<>>
        /\ ~Failed(loc[t].response[1])
        /\ loc[t].response[1].parsed[1].choices = <<>>
        /\ result[t] = Err("No choices in OpenAI response")

\* pat written k times in a row.
Repeat(pat, k) == [i \in 1..(k * Len(pat)) |-> pat[((i - 1) % Len(pat)) + 1]]

EndsWith(s, pat) ==
    Len(s) >= Len(pat) /\ SubSeq(s, Len(s) - Len(pat) + 1, Len(s)) = pat

\* r is e without the copies of pat it ends with.
IsEndTrimmed(r, e, pat) ==
    /\ \E k \in 0..Len(e) : e = r \o Repeat(pat, k)
    /\ ~EndsWith(r, pat)

\* C14: check_llm_availability sends one GET to /api/version under the
\* endpoint it read (the endpoint's trailing slash not doubled), returns a
\* bool and no error: true exactly when the answer has a status in 200..299,
\* false when there is no answer or another status.  No step of the call
\* changes the registry or the settings.
C14_AvailabilityIsBool ==
    /\ [](\A t \in Threads :
             Inside(t, "check_llm_availability") =>
                /\ http[t] # <<>> =>
                      /\ http[t][1].api = "version"
                      /\ \E stem \in {SubSeq(loc[t].endpoint[1], 1, n) :
                                          n \in 0..Len(loc[t].endpoint[1])} :
                            /\ IsEndTrimmed(stem, loc[t].endpoint[1], Slash)
                            /\ http[t][1].url = stem \o ApiVersion
                /\ pc[t] = "return" =>
                      /\ result[t].status = "bool"
                      /\ result[t].err = ""
                      /\ loc[t].sent = 1
                      /\ result[t].flag =
                            ( /\ loc[t].response[1].transport
                              /\ loc[t].response[1].status \in 200..299 ))
    /\ [][\A t \in Threads :
             ( \/ Begins(t, "check_llm_availability")
               \/ Inside(t, "check_llm_availability") /\ pc'[t] # pc[t] )
             => /\ settings' = settings
                /\ profiles' = profiles
                /\ stored' = stored
                /\ guard' = guard]_vars

C14_Witness ==
    \E t \in Threads :
        /\ Returns(t, "check_llm_availability")
        /\ loc[t].endpoint = <<EndpointSlash>>
        /\ loc[t].response = <<Answer(503, <<"down">>, <<>>)>>
        /\ result[t] = Bool(FALSE)

\* Somewhere in the template stands an opening brace, the thirteen letters
\* of transcription and a closing brace, in a row.
HasPlaceholder(template) ==
    \E i \in 1..(Len(template) - 14) :
        /\ template[i] = "{"
        /\ template[i + 14] = "}"
        /\ SubSeq(template, i + 1, i + 13) =
              <<"t", "r", "a", "n", "s", "c", "r", "i", "p", "t", "i", "o", "n">>

\* C15: in every state every profile of the registry with a non-empty template
\* has the placeholder in it, and a profile without the placeholder has the
\* empty template and is the seeded "raw".
C15_TemplatesHavePlaceholder ==
    \A k \in DOMAIN profiles :
        LET template == profiles[k].user_prompt_template
        IN  IF template # <<>>
            THEN HasPlaceholder(template)
            ELSE k = "raw" /\ profiles[k].is_built_in

\* A save was turned down for its template while the registry holds a saved
\* profile and the seeded "raw".
C15_Witness ==
    \E t \in Threads :
        /\ Returns(t, "save_custom_profile")
        /\ call[t].profile = <<NoPlaceholder>>
        /\ "custom_1" \in DOMAIN profiles
        /\ profiles["custom_1"] = CustomOneEdited
        /\ profiles["raw"].user_prompt_template = <<>>

\* The six profiles as get_built_in_profiles seeds them.
Seeded == {get_built_in_profiles[i] : i \in DOMAIN get_built_in_profiles}

\* C16: is_built_in is true in the registry for the six seeded profiles only:
\* no step of save_custom_profile, delete_custom_profile or reload_profiles
\* puts a profile into the registry that is flagged built-in and is not one
\* of the six.
C16_OnlySeededFlagged ==
    [][\A k \in DOMAIN profiles' :
          profiles'[k].is_built_in
          => \/ profiles'[k] \in Seeded
             \/ k \in DOMAIN profiles /\ profiles[k] = profiles'[k]]_vars

\* s without pat at its end, once, when it ends with pat.
StripOnce(s, pat) ==
    IF EndsWith(s, pat) THEN SubSeq(s, 1, Len(s) - Len(pat)) ELSE s

Prefixes(s) == {SubSeq(s, 1, n) : n \in 0..Len(s)}

\* C17 as stated: the URL of every OpenAI-compatible request is the endpoint
\* the call read with one trailing slash stripped, then one trailing /v1
\* stripped, then /chat/completions appended.
C17_UrlStripsOnce ==
    \A t \in Threads :
        (http[t] # <<>> /\ http[t][1].api = "OpenAI")
        => http[t][1].url =
              StripOnce(StripOnce(loc[t].endpoint[1], Slash), V1Suffix)
                  \o ChatCompletions

\* C17, amended: the URL of every OpenAI-compatible request is the endpoint
\* the call read with all of its trailing slashes stripped, then all of the
\* /v1 segments the rest ends with stripped, then /chat/completions appended.
\* It is the URL of the statement above whenever stripping once leaves no
\* further slash, respectively /v1, at the end; "http://host/v1/" yields
\* "http://host/chat/completions".
C17_UrlStripsAll ==
    \A t \in Threads :
        (http[t] # <<>> /\ http[t][1].api = "OpenAI")
        => LET e == loc[t].endpoint[1]
               url == http[t][1].url
               noslash == StripOnce(e, Slash)
               nov1 == StripOnce(noslash, V1Suffix)
           IN  /\ \E rest \in Prefixes(e) :
                     /\ IsEndTrimmed(rest, e, Slash)
                     /\ \E stem \in Prefixes(rest) :
                           /\ IsEndTrimmed(stem, rest, V1Suffix)
                           /\ url = stem \o ChatCompletions
               /\ (~EndsWith(noslash, Slash) /\ ~EndsWith(nov1, V1Suffix))
                     => url = nov1 \o ChatCompletions
               /\ e = EndpointV1Slash => url = Host \o ChatCompletions

C17_Witness ==
    \E t \in Threads :
        /\ http[t] # <<>>
        /\ loc[t].endpoint = <<Host \o V1Suffix \o V1Suffix \o Slash>>
        /\ http[t][1].url = Host \o ChatCompletions

\* The positions of the template at which the placeholder begins.
Occurrences(template) ==
    {i \in 1..Len(template) :
        /\ i + Len(Placeholder) - 1 <= Len(template)
        /\ \A j \in 1..Len(Placeholder) : template[i + j - 1] = Placeholder[j]}

\* What position i of the template contributes to the prompt: the raw text
\* where a placeholder begins, nothing inside a placeholder, and its own
\* character elsewhere.
Contribution(template, raw_text, i) ==
    IF i \in Occurrences(template) THEN raw_text
    ELSE IF \E k \in Occurrences(template) : k < i /\ i < k + Len(Placeholder)
         THEN <<>>
         ELSE <<template[i]>>

\* C18: format_prompt returns the template with the raw text in the place of
\* every occurrence of the placeholder and every other character kept, in
\* order; the raw text goes in as it is, placeholders in it included; a
\* template without the placeholder comes back unchanged.
C18_FormatPromptSubstitutes ==
    \A t \in Threads :
        Returns(t, "format_prompt") =>
            LET template == call[t].profile[1].user_prompt_template
                raw_text == call[t].raw_text
            IN  /\ result[t].status = "ok"
                /\ result[t].text =
                      Flatten([i \in 1..Len(template) |->
                                  Contribution(template, raw_text, i)])
                /\ Len(result[t].text) =
                      Len(template) + Cardinality(Occurrences(template))
                                        * (Len(raw_text) - Len(Placeholder))
                /\ Occurrences(template) = {} => result[t].text = template

\* Two placeholders, a raw text with the placeholder in it.
C18_Witness ==
    \E t \in Threads :
        /\ Returns(t, "format_prompt")
        /\ call[t].profile[1].user_prompt_template =
              Placeholder \o <<"a">> \o Placeholder
        /\ call[t].raw_text = <<"x">> \o Placeholder
        /\ result[t].text =
              <<"x">> \o Placeholder \o <<"a", "x">> \o Placeholder

\* The settings field each mutator is there to change.
MutatorField ==
    [change_summarization_enabled_setting |-> "enable_summarization",
     change_active_profile_setting |-> "active_profile_id",
     change_llm_endpoint_setting |-> "llm_endpoint",
     change_llm_model_setting |-> "llm_model",
     change_llm_api_type_setting |-> "llm_api_type",
     change_llm_timeout_setting |-> "llm_timeout_seconds"]

ReloadInProgress ==
    \E t \in Threads :
        /\ call[t].op \in {"save_custom_profile", "delete_custom_profile",
                            "reload_profiles"}
        /\ pc[t] \notin {"idle", "return"}

\* The registry is the load of the custom profiles cs: it has the six
\* built-in ids and the ids of cs, maps an id of cs to the last entry of cs
\* with that id, and any other id to the profile seeded for it.
IsLoadOf(m, cs) ==
    /\ DOMAIN m = BuiltInIds \cup {cs[i].id : i \in DOMAIN cs}
    /\ \A k \in DOMAIN m :
          IF \E i \in DOMAIN cs : cs[i].id = k
          THEN \E i \in DOMAIN cs :
                  /\ cs[i].id = k
                  /\ \A j \in (i + 1)..Len(cs) : cs[j].id # k
                  /\ m[k] = cs[i]
          ELSE \E i \in DOMAIN get_built_in_profiles :
                  get_built_in_profiles[i].id = k /\ m[k] = get_built_in_profiles[i]

ExpectedUserPrompt(profile, raw_text) ==
    Flatten([i \in 1..Len(profile.user_prompt_template) |->
                Contribution(profile.user_prompt_template, raw_text, i)])

\* The request carries the system prompt of the profile and the user prompt
\* made from the template of the same profile.
BuiltFrom(request, profile, raw_text) ==
    LET user == ExpectedUserPrompt(profile, raw_text)
    IN  IF request.api = "Ollama"
        THEN request.prompt =
                IF profile.system_prompt = <<>> THEN user
                ELSE <<"System: ">> \o profile.system_prompt
                        \o <<"\n", "\n", "User: ">> \o user
        ELSE /\ request.messages[Len(request.messages)] =
                    [role |-> "user", content |-> user]
             /\ IF profile.system_prompt = <<>>
                THEN Len(request.messages) = 1
                ELSE /\ Len(request.messages) = 2
                     /\ request.messages[1] =
                           [role |-> "system", content |-> profile.system_prompt]

\* C21: the lookup of a process_with_profile call copies the profile the
\* registry maps the id to at that moment; the copy stays as it is to the end
\* of the call; the request of the call carries the system prompt of the copy
\* and the user prompt made from the template of the copy, whatever the
\* registry holds by then; and no step of another call changes the copy, the
\* request in flight or the result of the call.
C21_CallWorksOnItsCopy ==
    /\ [](\A t \in Threads :
             (Inside(t, "process_with_profile") /\ http[t] # <<>>)
                => BuiltFrom(http[t][1], loc[t].profile[1], call[t].raw_text))
    /\ [][\A t \in Threads :
             Inside(t, "process_with_profile") =>
                /\ (pc[t] = "process_lookup" /\ pc'[t] # "process_lookup")
                      => loc'[t].profile =
                            IF call[t].profile_id \in DOMAIN profiles
                            THEN <<profiles[call[t].profile_id]>> ELSE <<>>
                /\ (pc[t] # "process_lookup" /\ pc'[t] # "idle")
                      => loc'[t].profile = loc[t].profile
                /\ pc'[t] = pc[t]
                      => /\ loc'[t] = loc[t]
                         /\ http'[t] = http[t]
                         /\ result'[t] = result[t]
                         /\ call'[t] = call[t]]_vars

\* The request in flight was built from the copy of a profile that a save
\* has replaced in the registry since.
C21_Witness ==
    \E t \in Threads :
        /\ Inside(t, "process_with_profile")
        /\ http[t] # <<>>
        /\ loc[t].profile = <<CustomOne>>
        /\ profiles["custom_1"] = CustomOneEdited
        /\ BuiltFrom(http[t][1], CustomOne, call[t].raw_text)
        /\ ~BuiltFrom(http[t][1], CustomOneEdited, call[t].raw_text)

\* No two entries of the list have the same id.
DistinctIds(cs) == \A i, j \in DOMAIN cs : cs[i].id = cs[j].id => i = j

\* Thread t, inside a call of op, runs its write_settings in this step.
Writes(t, op) ==
    call[t].op = op /\ pc[t] = "write_settings" /\ pc'[t] # "write_settings"

\* C22: with the commands run one after the other from stored custom
\* profiles with pairwise distinct ids, the stored ids are pairwise distinct
\* in every state.  The write of a save of a stored id replaces that entry
\* where it stands and keeps the length; the write of a save of a new id
\* appends that one entry; the write of a delete leaves the entries of the
\* other ids, in order, and none of the id; a call that is turned down
\* writes nothing.
C22_StoredIdsDistinct ==
    /\ [](DistinctIds(settings.custom_profiles))
    /\ [][\A t \in Threads :
             LET old == settings.custom_profiles
                 new == settings'.custom_profiles
             IN  /\ Writes(t, "save_custom_profile") =>
                      LET p == call[t].profile[1]
                      IN  IF \E i \in DOMAIN old : old[i].id = p.id
                          THEN /\ Len(new) = Len(old)
                               /\ \A i \in DOMAIN old :
                                     new[i] = IF old[i].id = p.id THEN p ELSE old[i]
                          ELSE /\ Len(new) = Len(old) + 1
                               /\ new[Len(new)] = p
                               /\ \A i \in DOMAIN old : new[i] = old[i]
                 /\ Writes(t, "delete_custom_profile") =>
                      LET Kept(q) == q.id # call[t].profile_id
                      IN  /\ new = SelectSeq(old, Kept)
                          /\ \A i \in DOMAIN new : new[i].id # call[t].profile_id
                 /\ ( /\ \/ Begins(t, "save_custom_profile")
                          \/ Begins(t, "delete_custom_profile")
                       /\ pc'[t] = "return" )
                      => new = old]_vars

\* A save has replaced the first of two stored entries where it stood.
C22_Witness ==
    \E t \in Threads :
        /\ Returns(t, "save_custom_profile")
        /\ result[t].status = "ok"
        /\ settings.custom_profiles = <<CustomOneEdited, CustomFlagged>>

====
